---- MODULE Spec2Model ----
(***************************************************************************)
(* Progress aggregation and playlist state of the downloader:              *)
(*   src/python/downloader/progress.py  (ProgressState, ProgressCalculator)*)
(*   src/python/downloader/core.py      (download_media, _on_progress)     *)
(*   src/python/interface/log.py        (format_progress)                  *)
(*   src/python/interface/ipc.py        (IPC._default_progress_handler)    *)
(*                                                                         *)
(* Python floats are modelled as exact rationals [n, d] in lowest terms,   *)
(* extended with inf and nan where float() can produce them.  Python       *)
(* strings are modelled as sequences of one-character strings.             *)
(***************************************************************************)
EXTENDS Integers, Sequences, FiniteSets, TLC

VARIABLES state, raw, result, file_percent, via, delivered, finrun,
          discipline, last, message, fresh, session

vars == <<state, raw, result, file_percent, via, delivered, finrun,
          discipline, last, message, fresh, session>>

(***************************************************************************)
(* Bounds of the model.                                                    *)
(***************************************************************************)
\* largest playlist size passed to set_playlist_info
MaxItems == 3
\* byte counts of the events are multiples of ByteUnit, up to MaxChunks units
ByteUnit == 25
MaxChunks == 4
\* how many times the fetch engine may deliver one and the same finished event
MaxDeliveries == 2
\* how many times the fetch engine calls the hook during one transfer
MaxHookCalls == 2
\* how many URLs the batch file has
MaxUrls == 2

(***************************************************************************)
(* Exact rational arithmetic standing for Python float arithmetic.         *)
(***************************************************************************)
Abs(i) == IF i < 0 THEN -i ELSE i

RECURSIVE GCD(_, _)
GCD(a, b) == IF b = 0 THEN a ELSE GCD(b, a % b)

\* n/d for d > 0 and a common divisor g of both
Reduced(n, d, g) == [n |-> n \div g, d |-> d \div g]

\* the rational n/d (d # 0) in lowest terms with a positive denominator
Q(n, d) == Reduced(IF d < 0 THEN -n ELSE n, Abs(d), GCD(Abs(n), Abs(d)))

QInt(i) == [n |-> i, d |-> 1]
QAdd(a, b) == Q(a.n * b.d + b.n * a.d, a.d * b.d)
QMul(a, b) == Q(a.n * b.n, a.d * b.d)
QDiv(a, b) == Q(a.n * b.d, a.d * b.n)
QLt(a, b) == a.n * b.d < b.n * a.d
QLe(a, b) == a.n * b.d <= b.n * a.d

\* float values: a finite number, an infinity or nan
FNum(q) == [k |-> "num", q |-> q]
FInf(neg) == [k |-> "inf", neg |-> neg]
FNan == [k |-> "nan"]

\* a < b on floats (every comparison with nan is false)
FLt(a, b) ==
    IF a.k = "nan" \/ b.k = "nan" THEN FALSE
    ELSE IF a.k = "inf" THEN a.neg /\ ~(b.k = "inf" /\ b.neg)
    ELSE IF b.k = "inf" THEN ~b.neg
    ELSE QLt(a.q, b.q)

\* Python's max(a, b) and min(a, b): the first argument is kept unless the
\* second is strictly greater (smaller)
PyMax(a, b) == IF FLt(a, b) THEN b ELSE a
PyMin(a, b) == IF FLt(b, a) THEN b ELSE a

\* min(100.0, max(0.0, x)); the result is always a finite number
Clamp(x) == PyMin(FNum(QInt(100)), PyMax(FNum(QInt(0)), x)).q

(***************************************************************************)
(* Python values held by the event dictionaries.                           *)
(***************************************************************************)
PyInt(i) == [t |-> "int", v |-> i]
PyStr(s) == [t |-> "str", v |-> s]
PyNone == [t |-> "none"]

\* dict.get(key, default)
Get(dict, key, default) == IF key \in DOMAIN dict THEN dict[key] ELSE default

Digits == <<"0", "1", "2", "3", "4", "5", "6", "7", "8", "9">>
IsDigit(c) == \E i \in 1..10 : Digits[i] = c
DigitVal(c) == (CHOOSE i \in 1..10 : Digits[i] = c) - 1

RECURSIVE NatToStr(_)
NatToStr(i) ==
    IF i < 10 THEN <<Digits[i + 1]>>
    ELSE NatToStr(i \div 10) \o <<Digits[(i % 10) + 1]>>

\* str(value)
Str(value) ==
    IF value.t = "str" THEN value.v
    ELSE IF value.t = "none" THEN <<"N", "o", "n", "e">>
    ELSE IF value.v < 0 THEN <<"-">> \o NatToStr(-value.v)
    ELSE NatToStr(value.v)

\* s.strip(chars): leading and trailing characters of the set are removed
RECURSIVE LStrip(_, _)
LStrip(s, chars) ==
    IF s # <<>> /\ Head(s) \in chars THEN LStrip(Tail(s), chars) ELSE s

RECURSIVE RStrip(_, _)
RStrip(s, chars) ==
    IF s # <<>> /\ s[Len(s)] \in chars
    THEN RStrip(SubSeq(s, 1, Len(s) - 1), chars) ELSE s

Strip(s, chars) == RStrip(LStrip(s, chars), chars)

RECURSIVE DigitsToNat(_)
DigitsToNat(s) ==
    IF s = <<>> THEN 0
    ELSE 10 * DigitsToNat(SubSeq(s, 1, Len(s) - 1)) + DigitVal(s[Len(s)])

RECURSIVE Pow10(_)
Pow10(k) == IF k = 0 THEN 1 ELSE 10 * Pow10(k - 1)

AllDigits(s) == \A i \in 1..Len(s) : IsDigit(s[i])

\* the numeral with integer part ip and fraction part fp
Decimal(ip, fp, neg) ==
    IF AllDigits(ip) /\ AllDigits(fp) /\ Len(ip) + Len(fp) >= 1
    THEN FNum(Q((IF neg THEN -1 ELSE 1) * DigitsToNat(ip \o fp),
                Pow10(Len(fp))))
    ELSE [k |-> "ValueError"]

\* the position of a point in body, or Len(body) + 1 when it has none
PointOf(body) ==
    IF \E i \in 1..Len(body) : body[i] = "."
    THEN CHOOSE i \in 1..Len(body) : body[i] = "."
    ELSE Len(body) + 1

\* the numeral body split at the point at position p
SplitAt(body, p, neg) ==
    Decimal(SubSeq(body, 1, p - 1), SubSeq(body, p + 1, Len(body)), neg)

\* the float an unsigned body denotes
Unsigned(body, neg) ==
    IF body = <<"i", "n", "f">> THEN FInf(neg)
    ELSE IF body = <<"n", "a", "n">> THEN FNan
    ELSE SplitAt(body, PointOf(body), neg)

\* the float a string without surrounding blanks denotes
Trimmed(t) ==
    IF t # <<>> /\ Head(t) \in {"+", "-"}
    THEN Unsigned(Tail(t), Head(t) = "-")
    ELSE Unsigned(t, FALSE)

\* float(s) for the strings of the model's alphabet: surrounding blanks are
\* ignored, then an optional sign, then "inf", "nan" or a decimal numeral
\* (digits with at most one point and at least one digit); anything else
\* raises ValueError
Float(s) == Trimmed(Strip(s, {" "}))

(***************************************************************************)
(* progress.py: ProgressState and ProgressCalculator.                      *)
(***************************************************************************)
\* ProgressState(): the dataclass defaults
ProgressState ==
    [current_index |-> 1, total_songs |-> 0, is_playlist_mode |-> FALSE,
     playlist_name |-> <<>>, completed_songs |-> 0]

\* reset_state that keeps the name of the collection
ResetStateKeepsName(st) ==
    [current_index |-> 1, total_songs |-> 0, is_playlist_mode |-> FALSE,
     playlist_name |-> st.playlist_name, completed_songs |-> 0]

\* reset_state that clears the counters only
ResetStateKeepsMode(st) ==
    [current_index |-> 1, total_songs |-> st.total_songs,
     is_playlist_mode |-> st.is_playlist_mode,
     playlist_name |-> st.playlist_name, completed_songs |-> 0]

\* ProgressCalculator.reset_state: the state it installs in place of st
reset_state(st) == ProgressState

\* ProgressCalculator.set_playlist_info: the state it installs
PlaylistState(total_songs, playlist_name) ==
    [current_index |-> 1, total_songs |-> total_songs,
     is_playlist_mode |-> TRUE, playlist_name |-> playlist_name,
     completed_songs |-> 0]

\* (downloaded_bytes / total_bytes) * 100 between min and max
ByteRatio(downloaded_bytes, total_bytes) ==
    Clamp(FNum(QMul(QDiv(QInt(downloaded_bytes), QInt(total_bytes)),
                    QInt(100))))

\* _calculate_file_percent without the byte-ratio fallback: an unparsable
\* percentage string gives 0
TryNoFallback(parsed, downloaded_bytes, total_bytes) ==
    IF parsed.k # "ValueError" THEN Clamp(parsed) ELSE QInt(0)

\* _calculate_file_percent that takes an unknown total for a complete file
TryUnknownTotalDone(parsed, downloaded_bytes, total_bytes) ==
    IF parsed.k # "ValueError" THEN Clamp(parsed)
    ELSE IF total_bytes > 0 THEN ByteRatio(downloaded_bytes, total_bytes)
    ELSE QInt(100)

\* _calculate_file_percent that prefers the byte ratio whenever the total is
\* known and reads the percentage string only otherwise
TryBytesFirst(parsed, downloaded_bytes, total_bytes) ==
    IF total_bytes > 0 THEN ByteRatio(downloaded_bytes, total_bytes)
    ELSE IF parsed.k # "ValueError" THEN Clamp(parsed)
    ELSE QInt(0)

\* _calculate_file_percent that returns a parsed number as it is
TryUnclamped(parsed, downloaded_bytes, total_bytes) ==
    IF parsed.k = "num" THEN parsed.q
    ELSE IF parsed.k # "ValueError" THEN Clamp(parsed)
    ELSE IF total_bytes > 0 THEN ByteRatio(downloaded_bytes, total_bytes)
    ELSE QInt(0)

\* _calculate_file_percent, the try statement: parsed is float(percent_str)
\* or the ValueError it raised
Try(parsed, downloaded_bytes, total_bytes) ==
    IF parsed.k # "ValueError" THEN Clamp(parsed)
    ELSE IF total_bytes > 0 THEN ByteRatio(downloaded_bytes, total_bytes)
    ELSE QInt(0)

\* ProgressCalculator._calculate_file_percent
_calculate_file_percent(progress_data, downloaded_bytes, total_bytes) ==
    Try(Float(Strip(Str(Get(progress_data, "_percent_str",
                            PyStr(<<"0", "%">>))), {"%"})),
        downloaded_bytes, total_bytes)

\* _calculate_playlist_progress that leaves the completed items out of the
\* sum
PlaylistProgressCurrentOnly(st, file_pct) ==
    IF ~st.is_playlist_mode \/ st.total_songs = 0 THEN QInt(0)
    ELSE Clamp(FNum(QMul(QDiv(QDiv(file_pct, QInt(100)),
                              QInt(st.total_songs)), QInt(100))))

\* ProgressCalculator._calculate_playlist_progress
_calculate_playlist_progress(st, file_pct) ==
    IF ~st.is_playlist_mode \/ st.total_songs = 0 THEN QInt(0)
    ELSE LET total_progress ==
                 QAdd(QInt(st.completed_songs), QDiv(file_pct, QInt(100)))
         IN  Clamp(FNum(QMul(QDiv(total_progress, QInt(st.total_songs)),
                             QInt(100))))

\* _handle_finished_status whose last-item test is off by one
\* (completed_songs < total_songs)
HandleFinishedOffByOne(st) ==
    IF ~st.is_playlist_mode
    THEN [state |-> st,
          progress |-> [status |-> "finished", file_percent |-> QInt(100),
                        playlist_percent |-> QInt(100),
                        percentage |-> QInt(100)]]
    ELSE IF st.completed_songs < st.total_songs
    THEN LET st2 == [st EXCEPT !.completed_songs = @ + 1,
                               !.current_index = @ + 1]
         IN  [state |-> st2,
              progress |->
                  [status |-> "downloading", file_percent |-> QInt(100),
                   playlist_percent |->
                       _calculate_playlist_progress(st2, QInt(100)),
                   percentage |->
                       _calculate_playlist_progress(st2, QInt(100))]]
    ELSE [state |-> st,
          progress |-> [status |-> "finished", file_percent |-> QInt(100),
                        playlist_percent |-> QInt(100),
                        percentage |-> QInt(100)]]

\* _handle_finished_status that takes the percentage of a finished event from
\* the playlist formula in every mode
HandleFinishedAggregates(st) ==
    IF st.is_playlist_mode /\ st.completed_songs < st.total_songs - 1
    THEN LET st2 == [st EXCEPT !.completed_songs = @ + 1,
                               !.current_index = @ + 1]
         IN  [state |-> st2,
              progress |->
                  [status |-> "downloading", file_percent |-> QInt(100),
                   playlist_percent |->
                       _calculate_playlist_progress(st2, QInt(100)),
                   percentage |->
                       _calculate_playlist_progress(st2, QInt(100))]]
    ELSE [state |-> st,
          progress |-> [status |-> "finished", file_percent |-> QInt(100),
                        playlist_percent |-> QInt(100),
                        percentage |->
                            IF st.is_playlist_mode THEN QInt(100)
                            ELSE _calculate_playlist_progress(st, QInt(100))]]

\* _handle_finished_status that counts the last item as well
HandleFinishedCountsLast(st) ==
    IF ~st.is_playlist_mode
    THEN [state |-> st,
          progress |-> [status |-> "finished", file_percent |-> QInt(100),
                        playlist_percent |-> QInt(100),
                        percentage |-> QInt(100)]]
    ELSE IF st.completed_songs < st.total_songs - 1
    THEN LET st2 == [st EXCEPT !.completed_songs = @ + 1,
                               !.current_index = @ + 1]
         IN  [state |-> st2,
              progress |->
                  [status |-> "downloading", file_percent |-> QInt(100),
                   playlist_percent |->
                       _calculate_playlist_progress(st2, QInt(100)),
                   percentage |->
                       _calculate_playlist_progress(st2, QInt(100))]]
    ELSE [state |-> [st EXCEPT !.completed_songs = @ + 1,
                               !.current_index = @ + 1],
          progress |-> [status |-> "finished", file_percent |-> QInt(100),
                        playlist_percent |-> QInt(100),
                        percentage |-> QInt(100)]]

\* _handle_finished_status that evaluates the playlist formula before it
\* increments the counters
HandleFinishedPreIncrement(st) ==
    IF ~st.is_playlist_mode
    THEN [state |-> st,
          progress |-> [status |-> "finished", file_percent |-> QInt(100),
                        playlist_percent |-> QInt(100),
                        percentage |-> QInt(100)]]
    ELSE IF st.completed_songs < st.total_songs - 1
    THEN [state |-> [st EXCEPT !.completed_songs = @ + 1,
                               !.current_index = @ + 1],
          progress |->
              [status |-> "downloading", file_percent |-> QInt(100),
               playlist_percent |->
                   _calculate_playlist_progress(st, QInt(100)),
               percentage |->
                   _calculate_playlist_progress(st, QInt(100))]]
    ELSE [state |-> st,
          progress |-> [status |-> "finished", file_percent |-> QInt(100),
                        playlist_percent |-> QInt(100),
                        percentage |-> QInt(100)]]

\* _handle_finished_status that counts the finished file of a single download
HandleFinishedCountsSingle(st) ==
    IF ~st.is_playlist_mode
    THEN [state |-> [st EXCEPT !.completed_songs = 1],
          progress |-> [status |-> "finished", file_percent |-> QInt(100),
                        playlist_percent |-> QInt(100),
                        percentage |-> QInt(100)]]
    ELSE IF st.completed_songs < st.total_songs - 1
    THEN LET st2 == [st EXCEPT !.completed_songs = @ + 1,
                               !.current_index = @ + 1]
         IN  [state |-> st2,
              progress |->
                  [status |-> "downloading", file_percent |-> QInt(100),
                   playlist_percent |->
                       _calculate_playlist_progress(st2, QInt(100)),
                   percentage |->
                       _calculate_playlist_progress(st2, QInt(100))]]
    ELSE [state |-> st,
          progress |-> [status |-> "finished", file_percent |-> QInt(100),
                        playlist_percent |-> QInt(100),
                        percentage |-> QInt(100)]]

\* _handle_finished_status that moves the index on at the last item, too
HandleFinishedIndexRuns(st) ==
    IF ~st.is_playlist_mode
    THEN [state |-> st,
          progress |-> [status |-> "finished", file_percent |-> QInt(100),
                        playlist_percent |-> QInt(100),
                        percentage |-> QInt(100)]]
    ELSE IF st.completed_songs < st.total_songs - 1
    THEN LET st2 == [st EXCEPT !.completed_songs = @ + 1,
                               !.current_index = @ + 1]
         IN  [state |-> st2,
              progress |->
                  [status |-> "downloading", file_percent |-> QInt(100),
                   playlist_percent |->
                       _calculate_playlist_progress(st2, QInt(100)),
                   percentage |->
                       _calculate_playlist_progress(st2, QInt(100))]]
    ELSE [state |-> [st EXCEPT !.current_index = @ + 1],
          progress |-> [status |-> "finished", file_percent |-> QInt(100),
                        playlist_percent |-> QInt(100),
                        percentage |-> QInt(100)]]

\* ProgressCalculator._handle_finished_status: the state it leaves and the
\* dictionary it returns
_handle_finished_status(st) ==
    IF ~st.is_playlist_mode
    THEN [state |-> st,
          progress |-> [status |-> "finished", file_percent |-> QInt(100),
                        playlist_percent |-> QInt(100),
                        percentage |-> QInt(100)]]
    ELSE IF st.completed_songs < st.total_songs - 1
    THEN LET st2 == [st EXCEPT !.completed_songs = @ + 1,
                               !.current_index = @ + 1]
         IN  [state |-> st2,
              progress |->
                  [status |-> "downloading", file_percent |-> QInt(100),
                   playlist_percent |->
                       _calculate_playlist_progress(st2, QInt(100)),
                   percentage |->
                       _calculate_playlist_progress(st2, QInt(100))]]
    ELSE [state |-> st,
          progress |-> [status |-> "finished", file_percent |-> QInt(100),
                        playlist_percent |-> QInt(100),
                        percentage |-> QInt(100)]]

\* get_playlist_info that reports the number of completed items as the index
GetPlaylistInfoCompleted(st) ==
    IF ~st.is_playlist_mode THEN <<>>
    ELSE [playlist_index |-> st.completed_songs,
          playlist_count |-> st.total_songs,
          playlist_name |-> st.playlist_name,
          isPlaylist |-> TRUE]

\* ProgressCalculator.get_playlist_info
get_playlist_info(st) ==
    IF ~st.is_playlist_mode THEN <<>>
    ELSE [playlist_index |-> st.current_index,
          playlist_count |-> st.total_songs,
          playlist_name |-> st.playlist_name,
          isPlaylist |-> TRUE]

\* dict.update / {**a, **b}: the entries of b override those of a
Update(a, b) ==
    [key \in DOMAIN a \cup DOMAIN b |->
        IF key \in DOMAIN b THEN b[key] ELSE a[key]]

\* ProgressCalculator.calculate_progress: the state it leaves, the dictionary
\* it returns and the value of its local file_percent
calculate_progress(st, progress_data) ==
    LET status == Get(progress_data, "status", "ready")
        file_pct ==
            _calculate_file_percent(progress_data,
                                    Get(progress_data, "downloaded_bytes", 0),
                                    Get(progress_data, "total_bytes", 0))
        fin == _handle_finished_status(st)
        st2 == IF status = "finished" THEN fin.state ELSE st
        progress ==
            IF status = "finished" THEN fin.progress
            ELSE [status |-> status,
                  file_percent |-> file_pct,
                  playlist_percent |->
                      _calculate_playlist_progress(st, file_pct),
                  percentage |->
                      IF st.is_playlist_mode
                      THEN _calculate_playlist_progress(st, file_pct)
                      ELSE file_pct]
        passed ==
            [downloaded_bytes |-> Get(progress_data, "downloaded_bytes", 0),
             total_bytes |-> Get(progress_data, "total_bytes", 0),
             speed |-> Get(progress_data, "speed", PyInt(0)),
             eta |-> Get(progress_data, "eta", PyInt(0)),
             filename |-> Get(progress_data, "filename", PyStr(<<>>)),
             currentFile |-> Get(progress_data, "filename", PyStr(<<>>)),
             _percent_str |-> Get(progress_data, "_percent_str", PyStr(<<>>)),
             _speed_str |-> Get(progress_data, "_speed_str", PyStr(<<>>)),
             _eta_str |-> Get(progress_data, "_eta_str", PyStr(<<>>))]
        built == Update(progress, passed)
    IN  [state |-> st2,
         result |-> IF st2.is_playlist_mode
                    THEN Update(built, get_playlist_info(st2))
                    ELSE built,
         file_percent |-> file_pct]

(***************************************************************************)
(* core.py: _on_progress, the per-event entry point of the fetch engine.   *)
(***************************************************************************)
\* a local that was not assigned
NoValue == [k |-> "unassigned"]

\* truth value of a Python value, and `a or b`
Truthy(value) ==
    IF value.t = "none" THEN FALSE
    ELSE IF value.t = "int" THEN value.v # 0
    ELSE value.v # <<>>

Or(a, b) == IF Truthy(a) THEN a ELSE b

\* int(value): an int is itself, a string is parsed as an optionally signed
\* decimal numeral between blanks; anything else raises
IntOf(value) ==
    IF value.t = "int" THEN [ok |-> TRUE, v |-> value.v]
    ELSE IF value.t = "none" THEN [ok |-> FALSE, exc |-> "TypeError"]
    ELSE LET t == Strip(value.v, {" "})
             signed == t # <<>> /\ Head(t) \in {"+", "-"}
             body == IF signed THEN Tail(t) ELSE t
         IN  IF body # <<>> /\ AllDigits(body)
             THEN [ok |-> TRUE,
                   v |-> IF signed /\ Head(t) = "-"
                         THEN -DigitsToNat(body) ELSE DigitsToNat(body)]
             ELSE [ok |-> FALSE, exc |-> "ValueError"]

\* _on_progress without the special handling of the finished status
ProgressDataUnforced(d) ==
    LET downloaded_bytes == IntOf(Or(Get(d, "downloaded_bytes", PyInt(0)),
                                   PyInt(0)))
        total_bytes == IntOf(Or(Or(Get(d, "total_bytes", PyNone),
                                 Get(d, "total_bytes_estimate", PyNone)),
                              PyInt(0)))
    IN  IF ~downloaded_bytes.ok THEN [exc |-> downloaded_bytes.exc]
        ELSE IF ~total_bytes.ok THEN [exc |-> total_bytes.exc]
        ELSE [status |-> Get(d, "status", ""),
              downloaded_bytes |-> downloaded_bytes.v,
              total_bytes |-> total_bytes.v,
              speed |-> Get(d, "speed", PyInt(0)),
              eta |-> Get(d, "eta", PyInt(0)),
              filename |-> Get(d, "filename", PyStr(<<>>)),
              _percent_str |-> Get(d, "_percent_str", PyStr(<<"0", "%">>)),
              _speed_str |->
                  Get(d, "_speed_str", PyStr(<<"0", " ", "B", "/", "s">>)),
              _eta_str |->
                  Get(d, "_eta_str", PyStr(<<"-", "-", ":", "-", "-">>)),
              playlist_index |-> Get(d, "playlist_index", PyNone),
              playlist_count |-> Get(d, "playlist_count", PyNone),
              playlist_name |-> Get(d, "playlist_name", PyNone)]

\* _on_progress, the try block up to the call of calculate_progress: the
\* progress_data dictionary it builds, or the exception it raises
progress_data_of(d) ==
    LET downloaded_bytes == IntOf(Or(Get(d, "downloaded_bytes", PyInt(0)),
                                   PyInt(0)))
        total_bytes == IntOf(Or(Or(Get(d, "total_bytes", PyNone),
                                 Get(d, "total_bytes_estimate", PyNone)),
                              PyInt(0)))
        status == Get(d, "status", "")
        finished == status = "finished"
    IN  IF ~downloaded_bytes.ok THEN [exc |-> downloaded_bytes.exc]
        ELSE IF ~total_bytes.ok THEN [exc |-> total_bytes.exc]
        ELSE [status |-> status,
              downloaded_bytes |->
                  IF finished THEN total_bytes.v ELSE downloaded_bytes.v,
              total_bytes |-> total_bytes.v,
              speed |-> Get(d, "speed", PyInt(0)),
              eta |-> Get(d, "eta", PyInt(0)),
              filename |-> Get(d, "filename", PyStr(<<>>)),
              _percent_str |->
                  IF finished THEN PyStr(<<"1", "0", "0", "%">>)
                  ELSE Get(d, "_percent_str", PyStr(<<"0", "%">>)),
              _speed_str |->
                  Get(d, "_speed_str", PyStr(<<"0", " ", "B", "/", "s">>)),
              _eta_str |->
                  Get(d, "_eta_str", PyStr(<<"-", "-", ":", "-", "-">>)),
              playlist_index |-> Get(d, "playlist_index", PyNone),
              playlist_count |-> Get(d, "playlist_count", PyNone),
              playlist_name |-> Get(d, "playlist_name", PyNone)]

\* _on_progress with a callback: the state it leaves and the event it hands
\* to the callback (the enriched progress, or the error event of the except
\* branch)
_on_progress(st, d) ==
    LET progress_data == progress_data_of(d)
    IN  IF "exc" \in DOMAIN progress_data
        THEN [state |-> st,
              result |-> [status |-> "error", message |-> progress_data.exc],
              file_percent |-> NoValue]
        ELSE calculate_progress(st, progress_data)

\* the callbacks given to _on_progress: None, the ProgressReporter around
\* the default handler (which catches what the handler raises), a callable
\* that raises an Exception on every call, and a value that is not callable
Callbacks == {"None", "reporter", "raising", "not callable"}

Callable(callback) == callback \in {"reporter", "raising"}

\* the error event of the except branch of _on_progress
ErrorEvent(exc) == [status |-> "error", message |-> exc]

\* the except branch of _on_progress without the try around the callback
ErrorCallbackUnguarded(callback) ==
    IF callback = "raising" THEN "raised" ELSE "returned"

\* _on_progress, the call of the callback in the except branch: an exception
\* of the callback is caught and logged
ErrorCallback(callback) == "returned"

\* _on_progress, the end of the try block: the callback is given the result
\* of calculate_progress and may raise
TryCallback(out, callback) ==
    [state |-> out.state,
     file_percent |-> out.file_percent,
     handed |-> IF Callable(callback) THEN <<out.result>> ELSE <<>>,
     exc |-> IF callback = "raising" THEN "CallbackError" ELSE "none"]

\* _on_progress, the try block
TryBlock(st, progress_data, callback) ==
    IF "exc" \in DOMAIN progress_data
    THEN [state |-> st, file_percent |-> NoValue, handed |-> <<>>,
          exc |-> progress_data.exc]
    ELSE TryCallback(calculate_progress(st, progress_data), callback)

\* _on_progress, the except branch after the try block
ExceptBlock(tried, callback) ==
    [state |-> tried.state,
     file_percent |-> tried.file_percent,
     handed |-> IF tried.exc # "none" /\ Callable(callback)
                THEN Append(tried.handed, ErrorEvent(tried.exc))
                ELSE tried.handed,
     outcome |-> IF tried.exc # "none" /\ Callable(callback)
                 THEN ErrorCallback(callback) ELSE "returned"]

\* _on_progress(d, callback) for any callback: the state it leaves, the
\* events it hands to the callback in order, and whether it returns or raises
OnProgressCallback(st, d, callback) ==
    IF callback = "None"
    THEN [state |-> st, file_percent |-> NoValue, handed |-> <<>>,
          outcome |-> "returned"]
    ELSE ExceptBlock(TryBlock(st, progress_data_of(d), callback), callback)

(***************************************************************************)
(* interface/log.py and interface/ipc.py: the message the default progress *)
(* handler prints for the host.                                            *)
(***************************************************************************)
\* s.replace(c, '')
RECURSIVE Remove(_, _)
Remove(s, c) ==
    IF s = <<>> THEN <<>>
    ELSE IF Head(s) = c THEN Remove(Tail(s), c)
    ELSE <<Head(s)>> \o Remove(Tail(s), c)

\* format_progress, the inner try of the percentage: a ValueError gives 0
ParsedOrZero(parsed) ==
    IF parsed.k = "ValueError" THEN FNum(QInt(0)) ELSE parsed

\* format_progress, "Calculate percentage": the percentage string of the
\* event when it has one, else its percentage field, else 0
PercentageOf(data) ==
    IF Truthy(Get(data, "_percent_str", PyNone))
    THEN ParsedOrZero(Float(Remove(Str(data._percent_str), "%")))
    ELSE IF "percentage" \in DOMAIN data THEN FNum(data.percentage)
    ELSE FNum(QInt(0))

\* format_progress, "Determine status" with the percentage read so far
StatusOf(status, percentage) ==
    IF status \in {"downloading", "finished", "error"} THEN status
    ELSE IF FLt(FNum(QInt(0)), percentage) /\ FLt(percentage, FNum(QInt(100)))
    THEN "downloading"
    ELSE IF percentage.k # "nan" /\ ~FLt(percentage, FNum(QInt(100)))
    THEN "finished"
    ELSE status

\* format_progress: a finished event is given the percentage 100
FinalPercentage(status, percentage) ==
    IF status = "finished" THEN FNum(QInt(100)) ELSE percentage

\* the position of the last c in s, or 0
LastIndexOf(s, c) ==
    IF \E i \in 1..Len(s) : s[i] = c
    THEN CHOOSE i \in 1..Len(s) :
             s[i] = c /\ \A j \in (i + 1)..Len(s) : s[j] # c
    ELSE 0

\* s.split(c)[-1]
LastPart(s, c) == SubSeq(s, LastIndexOf(s, c) + 1, Len(s))

\* format_progress, "Get current file name"
CurrentFileOf(data) ==
    IF Truthy(Get(data, "filename", PyNone))
    THEN LastPart(LastPart(Str(data.filename), "/"), "\\")
    ELSE IF Truthy(Get(data, "currentFile", PyNone))
    THEN Str(data.currentFile)
    ELSE <<>>

\* the number of c in s
RECURSIVE Count(_, _)
Count(s, c) ==
    IF s = <<>> THEN 0
    ELSE (IF Head(s) = c THEN 1 ELSE 0) + Count(Tail(s), c)

\* m * 60 + s for the two parts of an eta string, 0 when int() raises
MinSec(m, s) == IF m.ok /\ s.ok THEN m.v * 60 + s.v ELSE 0

\* format_progress, the eta in seconds read from the string eta_str
EtaOfStr(eta_str) ==
    IF Count(eta_str, ":") = 1
    THEN MinSec(IntOf(PyStr(SubSeq(eta_str, 1, LastIndexOf(eta_str, ":") - 1))),
                IntOf(PyStr(LastPart(eta_str, ":"))))
    ELSE 0

\* format_progress, "Parse ETA": the seconds, or the exception of int(eta)
EtaOf(data) ==
    IF Truthy(Get(data, "_eta_str", PyNone))
    THEN [ok |-> TRUE, v |-> EtaOfStr(Str(data._eta_str))]
    ELSE IF Get(data, "eta", PyNone) # PyNone THEN IntOf(data.eta)
    ELSE [ok |-> TRUE, v |-> 0]

\* f"{secs:02d}"
TwoDigits(i) == IF i < 10 THEN <<"0">> \o NatToStr(i) ELSE NatToStr(i)

\* format_progress, the eta string: the one of the event, or f"{mins}:{secs:02d}"
\* of the numeric eta, or '--:--'
EtaStrOf(data, eta) ==
    IF Truthy(Get(data, "_eta_str", PyNone)) THEN Str(data._eta_str)
    ELSE IF Get(data, "eta", PyNone) # PyNone
    THEN Str(PyInt(eta \div 60)) \o <<":">> \o TwoDigits(eta % 60)
    ELSE <<"-", "-", ":", "-", "-">>

\* format_progress, "Get speed"
SpeedOf(data) ==
    Str(Or(Or(Get(data, "_speed_str", PyNone), Get(data, "speed", PyNone)),
           PyStr(<<"0", " ", "B", "/", "s">>)))

\* f"{percentage}%": the string of a number followed by '%', held by its parts
PercentStr(percentage) == <<percentage, "%">>

\* format_progress, the dictionary of the except branch
FormatError(exc) ==
    [status |-> "error", message |-> exc, percentage |-> FNum(QInt(0)),
     downloaded |-> 0, total |-> 0,
     speed |-> <<"0", " ", "B", "/", "s">>, eta |-> 0,
     _percent_str |-> <<"0", "%">>,
     _speed_str |-> <<"0", " ", "B", "/", "s">>,
     _eta_str |-> <<"-", "-", ":", "-", "-">>]

\* format_progress, the dictionary `formatted`
Formatted(data, status, percentage, eta) ==
    [status |-> StatusOf(status, percentage),
     percentage |-> FinalPercentage(status, percentage),
     downloaded |-> Get(data, "downloaded_bytes", 0),
     total |-> Get(data, "total_bytes", 0),
     speed |-> SpeedOf(data),
     eta |-> eta,
     message |-> Get(data, "message", ""),
     _percent_str |-> PercentStr(FinalPercentage(status, percentage)),
     downloaded_bytes |-> Get(data, "downloaded_bytes", 0),
     total_bytes |-> Get(data, "total_bytes", 0),
     _speed_str |-> SpeedOf(data),
     _eta_str |-> EtaStrOf(data, eta),
     currentFile |-> CurrentFileOf(data),
     filename |-> CurrentFileOf(data),
     playlist_index |-> Get(data, "playlist_index", 0),
     playlist_count |-> Get(data, "playlist_count", 0),
     playlist_name |-> Get(data, "playlist_name", <<>>),
     total_playlist_eta |-> 0]

\* format_progress with the eta already read
FormatWithEta(data, eta) ==
    IF ~eta.ok THEN FormatError(eta.exc)
    ELSE Formatted(data, Get(data, "status", "downloading"),
                   PercentageOf(data), eta.v)

\* format_progress(data) for the events that _on_progress hands over
format_progress(data) == FormatWithEta(data, EtaOf(data))

\* IPC._default_progress_handler: the message it prints to stdout
_default_progress_handler(data) ==
    [type |-> "progress", data |-> format_progress(data)]

NoMessage == <<>>

(***************************************************************************)
(* The events fed to the two entry points.                                 *)
(***************************************************************************)
NoEvent == <<>>
NoResult == <<>>

Statuses == {"downloading", "converting", "finished"}
PlaylistNames == {<<"M", "y", "L", "i", "s", "t">>}

ByteCounts == {k * ByteUnit : k \in 0..MaxChunks}
FullSize == MaxChunks * ByteUnit

\* percentage strings of the session model
SessionPercentStrs ==
    {PyStr(<<"N", "/", "A", "%">>), PyStr(<<"5", "0", ".", "0", "%">>)}

\* sample percentage strings that are numerals, with or without the '%'
NumeralStrs ==
    {<<"5", "0", ".", "0", "%">>, <<"2", "5", "%">>, <<"7", "5">>,
     <<" ", "4", "5", ".", "3", "%">>, <<"1", "0", "0", "%">>,
     <<"1", "5", "0", "%">>, <<"-", "5", "%">>,
     <<"%", "1", "2", ".", "5", "%", "%">>}

\* sample percentage strings that are no numerals
MalformedStrs ==
    {<<"N", "/", "A", "%">>, <<>>, <<"%">>,
     <<"1", ".", "5", ".", "2", "%">>, <<"5", " ", "0", "%">>}

\* values of the '_percent_str' field in the single-call model
SamplePercentStrs ==
    {PyStr(ps) : ps \in NumeralStrs \cup MalformedStrs}
    \cup {PyStr(<<"i", "n", "f", "%">>), PyStr(<<"n", "a", "n", "%">>),
          PyNone, PyInt(50)}

\* dictionaries given to calculate_progress: byte counts are ints, the
\* percentage string may be missing
ProgressData(statuses, percents, downloads, totals) ==
    LET base == {[status |-> s, downloaded_bytes |-> db, total_bytes |-> tb] :
                     s \in statuses, db \in downloads, tb \in totals}
    IN  base \cup {Update(b, [_percent_str |-> ps]) :
                      b \in base, ps \in percents}

\* raw events given to _on_progress by the fetch engine
RawEvents(statuses, percents, downloads, totals) ==
    LET base == {[status |-> s, downloaded_bytes |-> PyInt(db),
                  total_bytes |-> PyInt(tb)] :
                     s \in statuses, db \in downloads, tb \in totals}
    IN  base \cup {Update(b, [_percent_str |-> ps]) :
                      b \in base, ps \in percents}

\* the events of the session model: downloading events in every shape, and
\* one converting and one finished event
SessionByteCounts == {0, FullSize \div 2, FullSize}
SessionProgressData ==
    ProgressData({"downloading"}, SessionPercentStrs, SessionByteCounts,
                 {FullSize})
    \cup ProgressData(Statuses \ {"downloading"}, {}, {FullSize}, {FullSize})
SessionRawEvents ==
    RawEvents({"downloading"}, SessionPercentStrs, SessionByteCounts,
              {FullSize})
    \cup RawEvents(Statuses \ {"downloading"}, {}, {FullSize}, {FullSize})

\* the events of the single-call model
SampleDownloads == ByteCounts \cup {-ByteUnit, FullSize + ByteUnit}
SampleProgressData ==
    ProgressData(Statuses, SamplePercentStrs, SampleDownloads, ByteCounts)
\* finished events as the fetch engine may shape them: a byte count may be
\* missing or None, the total may come as an estimate
FinishedRawEvents ==
    {Update(Update(Update(Update([status |-> "finished"], db), tb), est), ps) :
        db \in {<<>>, [downloaded_bytes |-> PyNone],
                [downloaded_bytes |-> PyInt(ByteUnit)]},
        tb \in {<<>>, [total_bytes |-> PyNone], [total_bytes |-> PyInt(0)],
                [total_bytes |-> PyInt(FullSize)]},
        est \in {<<>>, [total_bytes_estimate |-> PyInt(FullSize - ByteUnit)]},
        ps \in {<<>>, [_percent_str |-> PyStr(<<"N", "/", "A", "%">>)]}}

SampleRawEvents ==
    RawEvents(Statuses, SamplePercentStrs, SampleDownloads, ByteCounts)
    \cup FinishedRawEvents

(***************************************************************************)
(* The download_media invocations under way.  Outside the specification of *)
(* download_media none is.                                                 *)
(***************************************************************************)
\* the invocations of download_media, one for each URL of a batch file
Sessions == 1..MaxUrls
\* the two invocations that may be under way at a time when the callers
\* of download_media run side by side
Concurrent == {1, 2}
IdleSession ==
    [pc |-> "idle", process_playlist |-> FALSE, info |-> <<>>,
     playlist_state |-> [current_index |-> 0, total_count |-> 0,
                         playlist_name |-> <<>>],
     resets |-> 0, declared |-> 0, hooks |-> 0, own |-> ProgressState,
     outcome |-> "none"]
NoSessions == [s \in Sessions |-> IdleSession]

(***************************************************************************)
(* The session as the fetch engine drives it.  last is the latest          *)
(* operation on the progress state (with the state it found, for the two   *)
(* entry points), message what that operation printed for the host,        *)
(* delivered counts the items                                              *)
(* whose finished event has been delivered, finrun the deliveries of the   *)
(* latest finished event in a row, fresh the state of a calculator          *)
(* constructed at the latest reset_state and given the same calls since,   *)
(* and discipline records whether the                                      *)
(* events so far came as a well-behaved session delivers them:             *)
(*   "strict"  set_playlist_info at most once, before any event and with   *)
(*             at least one item; the items finish in order, none after    *)
(*             the last one; the file percent of an item never falls; no   *)
(*             finished event is delivered twice;                          *)
(*   "dups"    the same, but some finished event was delivered twice;      *)
(*   "none"    anything else.                                              *)
(***************************************************************************)
IsFinished(ev) == Get(ev, "status", "") = "finished"

NItems(st) == IF st.is_playlist_mode THEN st.total_songs ELSE 1

NextDiscipline(ev, out, redelivery) ==
    LET fin == IsFinished(ev)
        item == IF redelivery THEN delivered ELSE delivered + 1
        inOrder == item <= NItems(state)
        sameItem == raw # NoEvent /\ ~IsFinished(raw)
        fileOK ==
            /\ "file_percent" \in DOMAIN out.result
            /\ (~fin /\ sameItem) =>
                   /\ "file_percent" \in DOMAIN result
                   /\ QLe(result.file_percent, out.result.file_percent)
    IN  IF discipline = "none" \/ ~inOrder \/ ~fileOK THEN "none"
        ELSE IF redelivery
        THEN (IF finrun + 1 <= 2 THEN "dups" ELSE "none")
        ELSE discipline

\* the event ev given to the entry point reaches _handle_finished_status
ReachesFinished(entry, ev) ==
    /\ IsFinished(ev)
    /\ entry = "_on_progress" => "exc" \notin DOMAIN progress_data_of(ev)

\* the bookkeeping common to every delivery of an event
Deliver(entry, ev, out, redelivery) ==
    /\ state' = out.state
    /\ result' = out.result
    /\ file_percent' = out.file_percent
    /\ raw' = ev
    /\ via' = entry
    /\ delivered' = IF IsFinished(ev) /\ ~redelivery
                    THEN delivered + 1 ELSE delivered
    /\ finrun' = IF ~IsFinished(ev) THEN 0
                 ELSE IF redelivery THEN finrun + 1 ELSE 1
    /\ discipline' = NextDiscipline(ev, out, redelivery)
    /\ last' = [op |-> entry, before |-> state]
    /\ message' = IF entry = "_on_progress"
                  THEN _default_progress_handler(out.result)
                  ELSE NoMessage
    /\ fresh' = IF ReachesFinished(entry, ev)
                THEN _handle_finished_status(fresh).state ELSE fresh

(***************************************************************************)
(* Operations.                                                             *)
(***************************************************************************)
Init ==
    /\ state = ProgressState
    /\ raw = NoEvent
    /\ result = NoResult
    /\ file_percent = NoValue
    /\ via = "none"
    /\ delivered = 0
    /\ finrun = 0
    /\ discipline = "strict"
    /\ last = [op |-> "ProgressCalculator"]
    /\ message = NoMessage
    /\ fresh = ProgressState
    /\ session = NoSessions

\* reset_progress_state / ProgressCalculator.reset_state: a new session
ResetState ==
    /\ state' = reset_state(state)
    /\ raw' = NoEvent
    /\ result' = NoResult
    /\ file_percent' = NoValue
    /\ via' = "none"
    /\ delivered' = 0
    /\ finrun' = 0
    /\ discipline' = "strict"
    /\ last' = [op |-> "reset_state", before |-> state]
    /\ message' = NoMessage
    /\ fresh' = ProgressState
    /\ UNCHANGED session

\* set_playlist_info(total_songs, playlist_name)
SetPlaylistInfo(total_songs, playlist_name) ==
    /\ state' = PlaylistState(total_songs, playlist_name)
    /\ discipline' =
           IF /\ discipline = "strict" /\ raw = NoEvent
              /\ ~state.is_playlist_mode /\ total_songs >= 1
           THEN "strict" ELSE "none"
    /\ last' = [op |-> "set_playlist_info", total_songs |-> total_songs,
                playlist_name |-> playlist_name]
    /\ message' = NoMessage
    /\ fresh' = PlaylistState(total_songs, playlist_name)
    /\ UNCHANGED <<raw, result, file_percent, via, delivered, finrun, session>>

\* calculate_progress(progress_data) called with the next event of the item
\* the fetch engine is working on
CalculateProgress(progress_data) ==
    /\ delivered <= MaxItems
    /\ Deliver("calculate_progress", progress_data,
               calculate_progress(state, progress_data), FALSE)
    /\ UNCHANGED session

\* _on_progress(d, callback) called with the next event of the item the
\* fetch engine is working on
OnProgress(d) ==
    /\ delivered <= MaxItems
    /\ Deliver("_on_progress", d, _on_progress(state, d), FALSE)
    /\ UNCHANGED session

\* the fetch engine delivers the finished event it delivered last once more
Redeliver ==
    /\ raw # NoEvent
    /\ IsFinished(raw)
    /\ finrun < MaxDeliveries
    /\ Deliver(via, raw,
               IF via = "_on_progress" THEN _on_progress(state, raw)
               ELSE calculate_progress(state, raw), TRUE)
    /\ UNCHANGED session

Next ==
    \/ ResetState
    \/ \E total_songs \in (-1)..MaxItems, playlist_name \in PlaylistNames :
           SetPlaylistInfo(total_songs, playlist_name)
    \/ \E progress_data \in SessionProgressData :
           CalculateProgress(progress_data)
    \/ \E d \in SessionRawEvents : OnProgress(d)
    \/ Redeliver

Spec == Init /\ [][Next]_vars

(***************************************************************************)
(* One call of an entry point on a state that set_playlist_info or a new   *)
(* session leaves, with the event drawn from the larger sample sets.       *)
(***************************************************************************)
CallInit ==
    /\ state \in {ProgressState}
                 \cup {PlaylistState(total_songs, playlist_name) :
                          total_songs \in (-1)..MaxItems,
                          playlist_name \in PlaylistNames}
    /\ raw = NoEvent
    /\ result = NoResult
    /\ file_percent = NoValue
    /\ via = "none"
    /\ delivered = 0
    /\ finrun = 0
    /\ discipline = IF state.is_playlist_mode /\ state.total_songs < 1
                    THEN "none" ELSE "strict"
    /\ last = IF state.is_playlist_mode
              THEN [op |-> "set_playlist_info",
                    total_songs |-> state.total_songs,
                    playlist_name |-> state.playlist_name]
              ELSE [op |-> "ProgressCalculator"]
    /\ message = NoMessage
    /\ fresh = state
    /\ session = NoSessions

CallNext ==
    /\ raw = NoEvent
    /\ \/ \E progress_data \in SampleProgressData :
              CalculateProgress(progress_data)
       \/ \E d \in SampleRawEvents : OnProgress(d)

SpecCall == CallInit /\ [][CallNext]_vars

(***************************************************************************)
(* The fetch engine calling _on_progress with events of any shape and with *)
(* any callback.  last records the callback, the events handed to it and   *)
(* whether the call returned; result is the latest event handed over.      *)
(***************************************************************************)
\* values of a byte count field: missing, None, an int, numerals in a string
\* and strings that are no numerals
HookByteValues ==
    {PyNone, PyInt(FullSize \div 2), PyInt(FullSize),
     PyStr(<<" ", "5", "0", " ">>), PyStr(<<"N", "/", "A">>)}

HookRawEvents ==
    {Update(Update(st, db), tb) :
        st \in {<<>>, [status |-> "downloading"], [status |-> "finished"]},
        db \in {<<>>} \cup {[downloaded_bytes |-> v] : v \in HookByteValues},
        tb \in {<<>>} \cup {[total_bytes |-> v] :
                               v \in HookByteValues
                                     \ {PyInt(FullSize \div 2),
                                        PyStr(<<" ", "5", "0", " ">>)}}}

LastOf(handed) == IF handed = <<>> THEN NoResult ELSE handed[Len(handed)]

HookReturns(d, callback, out) ==
    /\ state' = out.state
    /\ result' = LastOf(out.handed)
    /\ file_percent' = out.file_percent
    /\ raw' = d
    /\ via' = "_on_progress"
    /\ discipline' = "none"
    /\ last' = [op |-> "_on_progress", before |-> state,
                callback |-> callback, handed |-> out.handed,
                outcome |-> out.outcome]
    /\ message' = IF callback = "reporter"
                  THEN _default_progress_handler(LastOf(out.handed))
                  ELSE NoMessage
    /\ fresh' = out.state
    /\ UNCHANGED <<delivered, finrun, session>>

\* the fetch engine calls _on_progress(d, callback)
Hook(d, callback) ==
    HookReturns(d, callback, OnProgressCallback(state, d, callback))

HookNext ==
    \/ \E d \in HookRawEvents, callback \in Callbacks : Hook(d, callback)
    \/ \E playlist_name \in PlaylistNames :
           /\ ~state.is_playlist_mode
           /\ SetPlaylistInfo(MaxItems - 1, playlist_name)

SpecHook == Init /\ [][HookNext]_vars

(***************************************************************************)
(* download_media.  Every session is one invocation; its pc is             *)
(*   "idle"       not yet called                                           *)
(*   "checked"    reset_progress_state done and ffmpeg found (line 226)    *)
(*   "extracted"  the flat extraction is over, or was skipped (line 354)   *)
(*   "transfer"   inside extract_info(url, download=True) (line 386),      *)
(*                where the fetch engine calls progress_wrapper            *)
(*   "done"       returned                                                 *)
(* resets, declared and hooks count its calls of reset_progress_state, of  *)
(* set_playlist_info and of progress_wrapper, and own is the state that a  *)
(* calculator used by this invocation alone would be in; outcome is how it *)
(* ended: "ok" and "failed" for the success flag it returned, "raised" for *)
(* an exception.  The invocations share the one calculator of the module,  *)
(* state.                                                                  *)
(***************************************************************************)
NoInfo == <<>>

\* what the flat extraction may return (apart from None): a single video, a
\* playlist of two entries, and a playlist whose only entry is None
Infos ==
    {[title |-> <<"V">>],
     [title |-> <<"M", "y", "L", "i", "s", "t">>, entries |-> <<TRUE, TRUE>>],
     [title |-> <<"M", "y", "L", "i", "s", "t">>, entries |-> <<FALSE>>]}

\* the events that the fetch engine gives to the hook during the transfer
TransferEvents ==
    RawEvents({"downloading"}, {}, {FullSize \div 2}, {FullSize})
    \cup RawEvents({"finished"}, {}, {FullSize}, {FullSize})

\* the condition of line 354 without the test for entries
IsCollectionAnyInfo(process_playlist, info) ==
    process_playlist /\ info # NoInfo

\* info and process_playlist and "entries" in info and info["entries"]
IsCollection(process_playlist, info) ==
    /\ info # NoInfo
    /\ process_playlist
    /\ "entries" \in DOMAIN info
    /\ info.entries # <<>>

\* len([e for e in info['entries'] if e])
TotalCount(info) ==
    Cardinality({i \in DOMAIN Get(info, "entries", <<>>) : info.entries[i]})

\* a step of download_media in session s that leaves the calculator alone
\* and prints msg for the host
SessionStep(s, next, msg) ==
    /\ session' = [session EXCEPT ![s] = next]
    /\ message' = msg
    /\ last' = [op |-> "download_media", session |-> s]
    /\ UNCHANGED <<state, raw, result, file_percent, via, delivered, finrun,
                   discipline, fresh>>

\* the message that the default handler prints for an event of download_media
Info(status, text) ==
    _default_progress_handler([status |-> status, message |-> text])

\* download_media up to line 224: reset_progress_state(), then the output
\* directory and the search for ffmpeg, which end the invocation when they
\* raise or when ffmpeg is not found
Start(s, process_playlist, ffmpeg_path, raises) ==
    /\ session[s].pc = "idle"
    /\ state' = reset_state(state)
    /\ fresh' = ProgressState
    /\ raw' = NoEvent
    /\ result' = NoResult
    /\ file_percent' = NoValue
    /\ via' = "none"
    /\ delivered' = 0
    /\ finrun' = 0
    /\ discipline' = "none"
    /\ last' = [op |-> "reset_state", before |-> state, session |-> s]
    /\ message' = IF ffmpeg_path \/ raises THEN NoMessage
                  ELSE Info("error", "FFmpeg non trovato")
    /\ session' =
           [session EXCEPT ![s] =
               [pc |-> IF ffmpeg_path /\ ~raises THEN "checked" ELSE "done",
                outcome |-> IF raises THEN "raised"
                            ELSE IF ffmpeg_path THEN "none" ELSE "failed",
                process_playlist |-> process_playlist,
                info |-> NoInfo,
                playlist_state |-> [current_index |-> 0, total_count |-> 0,
                                    playlist_name |-> <<>>],
                resets |-> session[s].resets + 1,
                declared |-> session[s].declared,
                hooks |-> session[s].hooks,
                own |-> ProgressState]]

\* lines 344-351: the flat extraction when process_playlist is set; it
\* returns info (None included) or raises, which ends the invocation
Extract(s, info, raises) ==
    /\ session[s].pc = "checked"
    /\ ~session[s].process_playlist => (info = NoInfo /\ ~raises)
    /\ SessionStep(s,
                   [session[s] EXCEPT
                       !.pc = IF raises THEN "done" ELSE "extracted",
                       !.outcome = IF raises THEN "failed" ELSE "none",
                       !.info = IF raises THEN NoInfo ELSE info],
                   IF session[s].process_playlist
                   THEN Info("info", "Extracting playlist info...")
                   ELSE NoMessage)

\* lines 354-382 for a collection: set_playlist_info, then the transfer
\* begins; the last message printed is the one of line 382
Declare(s) ==
    /\ session[s].pc = "extracted"
    /\ IsCollection(session[s].process_playlist, session[s].info)
    /\ state' = PlaylistState(TotalCount(session[s].info),
                              session[s].info.title)
    /\ fresh' = PlaylistState(TotalCount(session[s].info),
                              session[s].info.title)
    /\ discipline' = "none"
    /\ last' = [op |-> "set_playlist_info",
                total_songs |-> TotalCount(session[s].info),
                playlist_name |-> session[s].info.title,
                session |-> s]
    /\ message' = Info("info", "Starting download process...")
    /\ session' =
           [session EXCEPT ![s] =
               [@ EXCEPT
                   !.pc = "transfer",
                   !.playlist_state =
                       [current_index |-> 1,
                        total_count |-> TotalCount(session[s].info),
                        playlist_name |-> session[s].info.title],
                   !.declared = @ + 1,
                   !.own = PlaylistState(TotalCount(session[s].info),
                                         session[s].info.title)]]
    /\ UNCHANGED <<raw, result, file_percent, via, delivered, finrun>>

\* lines 354-382 for anything else: the transfer begins
Transfer(s) ==
    /\ session[s].pc = "extracted"
    /\ ~IsCollection(session[s].process_playlist, session[s].info)
    /\ SessionStep(s, [session[s] EXCEPT !.pc = "transfer"],
                   Info("info", "Starting download process..."))

\* progress_wrapper, lines 246-250: the playlist fields it adds to the event
\* (the events of the fetch engine have no 'playlist' key, so lines 238-242
\* do nothing)
Wrapped(playlist_state, d) ==
    IF playlist_state.total_count > 0
    THEN Update(d, [playlist_index |-> PyInt(playlist_state.current_index + 1),
                    playlist_count |-> PyInt(playlist_state.total_count),
                    playlist_name |-> PyStr(playlist_state.playlist_name),
                    isPlaylist |-> TRUE])
    ELSE d

\* progress_wrapper, lines 256-259: the index moves on after a finished item
Advanced(playlist_state, d) ==
    IF /\ playlist_state.total_count > 0
       /\ IsFinished(d)
       /\ playlist_state.current_index < playlist_state.total_count - 1
    THEN [playlist_state EXCEPT !.current_index = @ + 1]
    ELSE playlist_state

\* the fetch engine calls progress_wrapper(d) during the transfer of s
ProgressWrapper(s, d) ==
    /\ session[s].pc = "transfer"
    /\ session[s].hooks < MaxHookCalls
    /\ Deliver("_on_progress", Wrapped(session[s].playlist_state, d),
               _on_progress(state, Wrapped(session[s].playlist_state, d)),
               FALSE)
    /\ session' =
           [session EXCEPT ![s] =
               [@ EXCEPT
                   !.playlist_state = Advanced(@, d),
                   !.hooks = @ + 1,
                   !.own = IF IsFinished(d)
                           THEN _handle_finished_status(@).state ELSE @]]

\* the transfer ends, and download_media returns after its post-processing:
\* an exception of either is caught and makes the success flag False
Return(s, success) ==
    /\ session[s].pc = "transfer"
    /\ SessionStep(s,
                   [session[s] EXCEPT
                       !.pc = "done",
                       !.outcome = IF success THEN "ok" ELSE "failed"],
                   NoMessage)

DownloadNext ==
    \E s \in Concurrent :
        \/ \E process_playlist \in BOOLEAN, ffmpeg_path \in BOOLEAN,
              raises \in BOOLEAN :
               Start(s, process_playlist, ffmpeg_path, raises)
        \/ \E info \in Infos \cup {NoInfo}, raises \in BOOLEAN :
               Extract(s, info, raises)
        \/ Declare(s)
        \/ Transfer(s)
        \/ \E d \in TransferEvents : ProgressWrapper(s, d)
        \/ \E success \in BOOLEAN : Return(s, success)

SpecDownload == Init /\ [][DownloadNext]_vars

(***************************************************************************)
(* process_batch_file: the URLs of the file are given to                   *)
(* process_single_url, and so to download_media, one after another.        *)
(***************************************************************************)
\* a loop that ends at the first URL that fails
MayAttemptUntilFailure(s) ==
    \A t \in Sessions :
        t < s => session[t].pc = "done" /\ session[t].outcome = "ok"

\* the for loop of process_batch_file reaches the URL s: the calls for the
\* URLs before it have returned, whatever they returned or raised
\* (process_single_url and the loop catch every Exception)
MayAttempt(s) ==
    \A t \in Sessions : t < s => session[t].pc = "done"

\* process_single_url for the URL s
Attempt(s, process_playlist, ffmpeg_path, raises) ==
    /\ MayAttempt(s)
    /\ Start(s, process_playlist, ffmpeg_path, raises)

BatchNext ==
    \E s \in Sessions :
        \/ \E process_playlist \in BOOLEAN, ffmpeg_path \in BOOLEAN,
              raises \in BOOLEAN :
               Attempt(s, process_playlist, ffmpeg_path, raises)
        \/ \E info \in Infos \cup {NoInfo}, raises \in BOOLEAN :
               Extract(s, info, raises)
        \/ Declare(s)
        \/ Transfer(s)
        \/ \E d \in TransferEvents : ProgressWrapper(s, d)
        \/ \E success \in BOOLEAN : Return(s, success)

SpecBatch == Init /\ [][BatchNext]_vars

(***************************************************************************)
(* Properties.                                                             *)
(***************************************************************************)
\* an event has been processed since the session began
Called == raw # NoEvent

\* the latest operation was a call of an entry point: last.before is the
\* state it found, state the one it left, result what it returned
Processed == last.op \in {"calculate_progress", "_on_progress"}

\* the dictionary that reached calculate_progress in the latest call
ProgressDataIn ==
    IF via = "_on_progress" THEN progress_data_of(raw) ELSE raw

\* the byte count an event carries under a key, by entry point
BytesOf(entry, ev, key) ==
    IF entry = "_on_progress" THEN ev[key].v ELSE ev[key]

\* 100 * downloaded / total, limited to [0, 100]
ClampedRatio(downloaded, total) ==
    IF downloaded <= 0 THEN QInt(0)
    ELSE IF downloaded >= total THEN QInt(100)
    ELSE Q(100 * downloaded, total)

\* the number a sample numeral string denotes
NumeralValue(ps) ==
    CASE ps = <<"5", "0", ".", "0", "%">> -> Q(50, 1)
      [] ps = <<"2", "5", "%">> -> Q(25, 1)
      [] ps = <<"7", "5">> -> Q(75, 1)
      [] ps = <<" ", "4", "5", ".", "3", "%">> -> Q(453, 10)
      [] ps = <<"1", "0", "0", "%">> -> Q(100, 1)
      [] ps = <<"1", "5", "0", "%">> -> Q(150, 1)
      [] ps = <<"-", "5", "%">> -> Q(-5, 1)
      [] ps = <<"%", "1", "2", ".", "5", "%", "%">> -> Q(25, 2)

\* q limited to [0, 100]
Limited(q) ==
    IF QLt(q, QInt(0)) THEN QInt(0)
    ELSE IF QLt(QInt(100), q) THEN QInt(100) ELSE q

\* C1: within one session (reset_state, optionally set_playlist_info(N, name)
\* with N >= 1, then events in which the items complete in order and the file
\* percent of an item never falls), the percentage returned by successive
\* calculate_progress calls never decreases, and the finished event of the
\* last item returns exactly 100.
C1_MonotonePercentage ==
    /\ [][(discipline' = "strict" /\ raw' # NoEvent /\ result # NoResult)
             => QLe(result.percentage, result'.percentage)]_vars
    /\ []((discipline = "strict" /\ Called /\ IsFinished(raw)
              /\ delivered = NItems(state))
             => result.percentage = QInt(100))

\* C2: after set_playlist_info(N, name) with N >= 1 and N finished events, one
\* per item and in order, the N-th has playlist_percent 100 and status
\* 'finished'; each of the first N-1 has status 'downloading', and their
\* playlist_percent is strictly increasing from one to the next.
C2_CompletionLaw ==
    /\ []((discipline = "strict" /\ state.is_playlist_mode /\ Called
              /\ IsFinished(raw))
             => IF delivered < state.total_songs
                THEN result.status = "downloading"
                ELSE /\ result.status = "finished"
                     /\ result.playlist_percent = QInt(100))
    /\ [][(/\ discipline' = "strict" /\ state.is_playlist_mode
           /\ Called /\ IsFinished(raw) /\ IsFinished(raw')
           /\ delivered' = delivered + 1
           /\ delivered' < state.total_songs)
             => QLt(result.playlist_percent, result'.playlist_percent)]_vars

\* the finished event of the last of three items, all delivered in order
C2_Witness ==
    /\ discipline = "strict"
    /\ state.is_playlist_mode
    /\ state.total_songs = 3
    /\ delivered = 3
    /\ IsFinished(raw)
    /\ result.status = "finished"
    /\ result.playlist_percent = QInt(100)

\* C3: in an N-item collection the finished event of the k-th item (k < N,
\* in order, no duplicates) reports playlist_percent = 100*k/N with status
\* 'downloading'; the finished event of the N-th reports 100 with status
\* 'finished'.
C3_FinishedFraction ==
    (discipline = "strict" /\ state.is_playlist_mode /\ Called
        /\ IsFinished(raw))
       => IF delivered < state.total_songs
          THEN /\ result.status = "downloading"
               /\ result.playlist_percent
                      = Q(100 * delivered, state.total_songs)
          ELSE /\ result.status = "finished"
               /\ result.playlist_percent = QInt(100)

\* C4: in collection mode, the second delivery in a row of the finished event
\* of one item leaves completed_songs and current_index unchanged.
C4_DuplicateFinished ==
    [][(state.is_playlist_mode /\ Called /\ IsFinished(raw)
           /\ finrun = 1 /\ finrun' = 2)
          => /\ state'.completed_songs = state.completed_songs
             /\ state'.current_index = state.current_index]_vars

\* C5: in an N-item collection in which the finished event of each item is
\* delivered once or twice, no event returned carries status 'finished'
\* before the finished event of the N-th item has been delivered.
C5_NoEarlyFinished ==
    (discipline \in {"strict", "dups"} /\ state.is_playlist_mode /\ Called
        /\ result.status = "finished")
       => delivered >= state.total_songs

\* C6: for every non-finished event without a percentage string and with
\* byte counts 0 <= downloaded <= total, total > 0, file_percent is
\* 100*downloaded/total, and outside collection mode so is the percentage.
C6_ByteRatio ==
    (/\ Called /\ ~IsFinished(raw)
     /\ "_percent_str" \notin DOMAIN raw
     /\ BytesOf(via, raw, "total_bytes") > 0
     /\ BytesOf(via, raw, "downloaded_bytes") >= 0
     /\ BytesOf(via, raw, "downloaded_bytes")
            <= BytesOf(via, raw, "total_bytes"))
       => /\ result.file_percent
                 = Q(100 * BytesOf(via, raw, "downloaded_bytes"),
                     BytesOf(via, raw, "total_bytes"))
          /\ ~state.is_playlist_mode
                 => result.percentage
                        = Q(100 * BytesOf(via, raw, "downloaded_bytes"),
                            BytesOf(via, raw, "total_bytes"))

\* C7: when the percentage string that reaches _calculate_file_percent is
\* present but is no numeral and the total is known, file_percent is the byte
\* ratio 100*downloaded/total limited to [0,100]: no error event results, the
\* value is not 0 when the ratio is not, and a non-finished event reports it.
C7_MalformedFallsBack ==
    (/\ Called
     /\ "_percent_str" \in DOMAIN ProgressDataIn
     /\ ProgressDataIn._percent_str \in {PyStr(ps) : ps \in MalformedStrs}
     /\ ProgressDataIn.total_bytes > 0)
       => /\ result.status # "error"
          /\ file_percent = ClampedRatio(ProgressDataIn.downloaded_bytes,
                                         ProgressDataIn.total_bytes)
          /\ ProgressDataIn.downloaded_bytes > 0 => file_percent # QInt(0)
          /\ ~IsFinished(raw) => result.file_percent = file_percent

\* 'N/A%' with 25 bytes of 100 gives 25
C7_Witness ==
    /\ Called
    /\ ~IsFinished(raw)
    /\ "_percent_str" \in DOMAIN raw
    /\ raw._percent_str = PyStr(<<"N", "/", "A", "%">>)
    /\ BytesOf(via, raw, "downloaded_bytes") = 25
    /\ BytesOf(via, raw, "total_bytes") = 100
    /\ result.file_percent = QInt(25)

\* C8: for every non-finished event with total bytes 0 and no usable
\* percentage string (none, or one that is no numeral), file_percent is 0
\* whatever the downloaded byte count, and no error event results.
C8_UnknownTotalIsZero ==
    (/\ Called /\ ~IsFinished(raw)
     /\ BytesOf(via, raw, "total_bytes") = 0
     /\ \/ "_percent_str" \notin DOMAIN raw
        \/ raw._percent_str \in {PyStr(ps) : ps \in MalformedStrs})
       => /\ result.status # "error"
          /\ file_percent = QInt(0)
          /\ result.file_percent = QInt(0)

\* an unparsable string, total 0 and a positive downloaded count
C8_Witness ==
    /\ Called
    /\ ~IsFinished(raw)
    /\ "_percent_str" \in DOMAIN raw
    /\ raw._percent_str = PyStr(<<"N", "/", "A", "%">>)
    /\ BytesOf(via, raw, "total_bytes") = 0
    /\ BytesOf(via, raw, "downloaded_bytes") > 0
    /\ result.file_percent = QInt(0)

\* the percentage string of the event, where it is a numeral, agrees with
\* the byte counts of the event
AgreesWithBytes(entry, ev) ==
    ("_percent_str" \in DOMAIN ev
        /\ ev._percent_str \in {PyStr(ps) : ps \in NumeralStrs})
       => Limited(NumeralValue(ev._percent_str.v))
              = ClampedRatio(BytesOf(entry, ev, "downloaded_bytes"),
                             BytesOf(entry, ev, "total_bytes"))

\* C9: within one item, from one downloading event to the next with a larger
\* downloaded byte count and the same total (the percentage string of each,
\* if any, agreeing with its byte counts), file_percent does not decrease.
C9_FilePercentMonotone ==
    [][(/\ Called /\ raw' # NoEvent
        /\ Get(raw, "status", "") = "downloading"
        /\ Get(raw', "status", "") = "downloading"
        /\ AgreesWithBytes(via, raw) /\ AgreesWithBytes(via', raw')
        /\ BytesOf(via', raw', "total_bytes")
               = BytesOf(via, raw, "total_bytes")
        /\ BytesOf(via', raw', "downloaded_bytes")
               > BytesOf(via, raw, "downloaded_bytes"))
          => QLe(result.file_percent, result'.file_percent)]_vars

\* C10: when the percentage string that reaches _calculate_file_percent is a
\* numeral (with or without a trailing '%'), file_percent is its value
\* limited to [0,100] whatever the byte counts are, and a non-finished event
\* reports it.
C10_PercentStringFirst ==
    (/\ Called
     /\ "_percent_str" \in DOMAIN ProgressDataIn
     /\ ProgressDataIn._percent_str \in {PyStr(ps) : ps \in NumeralStrs})
       => /\ file_percent = Limited(NumeralValue(ProgressDataIn._percent_str.v))
          /\ ~IsFinished(raw) => result.file_percent = file_percent

\* '75' (no '%') with byte counts that give another ratio
C10_Witness ==
    /\ Called
    /\ ~IsFinished(raw)
    /\ "_percent_str" \in DOMAIN raw
    /\ raw._percent_str = PyStr(<<"7", "5">>)
    /\ BytesOf(via, raw, "downloaded_bytes") = 25
    /\ BytesOf(via, raw, "total_bytes") = 100
    /\ result.file_percent = QInt(75)

\* C11: for every raw event with status 'finished', whatever its percentage
\* string and (integer, missing or None) byte counts, the event that
\* _on_progress hands to the callback has file_percent exactly 100 and its
\* downloaded_bytes equals its total_bytes (in particular when the total is
\* known).
C11_FinishedForcesComplete ==
    (Called /\ via = "_on_progress" /\ IsFinished(raw))
       => /\ result.status # "error"
          /\ result.file_percent = QInt(100)
          /\ file_percent = QInt(100)
          /\ result.total_bytes = progress_data_of(raw).total_bytes
          /\ result.downloaded_bytes = result.total_bytes

\* a finished event with a malformed percentage string, 25 bytes downloaded
\* and a total known only as an estimate of 75
C11_Witness ==
    /\ Called
    /\ via = "_on_progress"
    /\ IsFinished(raw)
    /\ "total_bytes" \notin DOMAIN raw
    /\ "downloaded_bytes" \in DOMAIN raw
    /\ raw.downloaded_bytes = PyInt(25)
    /\ "_percent_str" \in DOMAIN raw
    /\ result.file_percent = QInt(100)
    /\ result.total_bytes = 75
    /\ result.downloaded_bytes = 75

\* C12: in collection mode with total_songs >= 1, every event whose status is
\* not 'finished' returns playlist_percent =
\* 100 * (completed_songs + file_percent/100) / total_songs limited to
\* [0,100], a percentage equal to that playlist_percent, and the status of
\* the event unchanged.
C12_PlaylistFormula ==
    (/\ Processed /\ ~IsFinished(raw)
     /\ last.before.is_playlist_mode /\ last.before.total_songs >= 1)
       => /\ result.file_percent = file_percent
          /\ result.playlist_percent
                 = Limited(Q(100 * last.before.completed_songs * file_percent.d
                                 + file_percent.n,
                             file_percent.d * last.before.total_songs))
          /\ result.percentage = result.playlist_percent
          /\ result.status = raw.status

\* half of the second of three items: (1 + 50/100) / 3 = 50 percent
C12_Witness ==
    /\ Processed
    /\ raw.status = "downloading"
    /\ last.before.is_playlist_mode
    /\ last.before.total_songs = 3
    /\ last.before.completed_songs = 1
    /\ file_percent = QInt(50)
    /\ result.playlist_percent = QInt(50)
    /\ result.percentage = QInt(50)
    /\ result.status = "downloading"

\* C13: outside collection mode the percentage returned by calculate_progress
\* equals the file_percent it returns, for every event; for an event that is
\* not finished that is the file percent computed from it, and a finished
\* event returns status 'finished' with percentage 100.
C13_SingleFilePercentage ==
    (Processed /\ ~last.before.is_playlist_mode /\ result.status # "error")
       => /\ result.percentage = result.file_percent
          /\ ~IsFinished(raw) => /\ result.percentage = file_percent
                                 /\ result.status = raw.status
          /\ IsFinished(raw) => /\ result.status = "finished"
                                /\ result.percentage = QInt(100)

\* a single file: ' 45.3%' gives percentage 45.3
C13_Witness ==
    /\ Processed
    /\ ~last.before.is_playlist_mode
    /\ ~state.is_playlist_mode
    /\ raw.status = "downloading"
    /\ "_percent_str" \in DOMAIN raw
    /\ raw._percent_str = PyStr(<<" ", "4", "5", ".", "3", "%">>)
    /\ result.percentage = Q(453, 10)
    /\ result.file_percent = Q(453, 10)

\* C14: playlist_index, playlist_count and playlist_name are in the result of
\* calculate_progress if and only if the state is in collection mode; when
\* present they are the current_index, total_songs and playlist_name of the
\* state the call left; outside collection mode get_playlist_info returns an
\* empty dictionary.
C14_PlaylistFields ==
    (Processed /\ result.status # "error")
       => /\ \A field \in {"playlist_index", "playlist_count",
                            "playlist_name"} :
                 (field \in DOMAIN result) <=> state.is_playlist_mode
          /\ state.is_playlist_mode
                 => /\ result.playlist_index = state.current_index
                    /\ result.playlist_count = state.total_songs
                    /\ result.playlist_name = state.playlist_name
                    /\ get_playlist_info(state)
                           = [playlist_index |-> state.current_index,
                              playlist_count |-> state.total_songs,
                              playlist_name |-> state.playlist_name,
                              isPlaylist |-> TRUE]
          /\ ~state.is_playlist_mode
                 => DOMAIN get_playlist_info(state) = {}

\* the finished event of the first of three items: the result names item 2
C14_Witness ==
    /\ Processed
    /\ IsFinished(raw)
    /\ last.before.is_playlist_mode
    /\ last.before.current_index = 1
    /\ state.current_index = 2
    /\ "playlist_index" \in DOMAIN result
    /\ result.playlist_index = 2
    /\ result.playlist_count = 3
    /\ result.playlist_name = <<"M", "y", "L", "i", "s", "t">>

\* C15: in every state reachable by reset_state, set_playlist_info and
\* calculate_progress calls (finished events in any number and order),
\* 0 <= completed_songs <= total_songs, and a completed_songs that was
\* incremented is at most total_songs - 1.
C15_CompletedWithinTotal ==
    /\ 0 <= state.completed_songs
    /\ state.completed_songs <= state.total_songs
    /\ state.completed_songs > 0
           => state.completed_songs <= state.total_songs - 1

\* the larger of two integers
Max(a, b) == IF a >= b THEN a ELSE b

\* C16: for any integer total, negative ones included, and any name,
\* set_playlist_info(total, name) leaves is_playlist_mode true,
\* total_songs = max(total, 0), completed_songs = 0, current_index = 1 and
\* playlist_name = name.
C16_SetPlaylistInfoClamps ==
    last.op = "set_playlist_info"
       => /\ state.is_playlist_mode
          /\ state.total_songs = Max(last.total_songs, 0)
          /\ state.completed_songs = 0
          /\ state.current_index = 1
          /\ state.playlist_name = last.playlist_name

\* C17: after set_playlist_info(0, name) calculate_progress behaves as in
\* single-item mode: an event that is not finished returns a percentage equal
\* to its file percent, a finished event returns status 'finished' with
\* percentage 100.
C17_EmptyCollectionIsSingle ==
    (/\ Processed /\ result.status # "error"
     /\ last.before.is_playlist_mode /\ last.before.total_songs = 0)
       => /\ ~IsFinished(raw) => /\ result.file_percent = file_percent
                                 /\ result.percentage = file_percent
          /\ IsFinished(raw) => /\ result.status = "finished"
                                /\ result.percentage = QInt(100)

\* q lies in the closed range [0, 100]
InRange(q) == QLe(QInt(0), q) /\ QLe(q, QInt(100))

\* C18: for every state and every event, the file_percent, playlist_percent
\* and percentage returned by calculate_progress (and the file percent it
\* computes) lie in [0,100].
C18_PercentagesInRange ==
    (Processed /\ result.status # "error")
       => /\ InRange(file_percent)
          /\ InRange(result.file_percent)
          /\ InRange(result.playlist_percent)
          /\ InRange(result.percentage)

\* '150%' is limited to 100, and with total_songs = -1 the playlist formula,
\* negative before it is limited, gives 0
C18_Witness ==
    /\ Processed
    /\ last.before.is_playlist_mode
    /\ last.before.total_songs = -1
    /\ raw.status = "downloading"
    /\ "_percent_str" \in DOMAIN raw
    /\ raw._percent_str = PyStr(<<"1", "5", "0", "%">>)
    /\ result.file_percent = QInt(100)
    /\ result.playlist_percent = QInt(0)
    /\ result.percentage = QInt(0)

\* the latest operation was _on_progress with the default handler, and it
\* printed the message for an event that calculate_progress produced
Reported == last.op = "_on_progress" /\ result.status # "error"

\* C19: the percentage of the message that the default handler prints for
\* the host (built by format_progress from the event that calculate_progress
\* produced) equals the percentage that calculate_progress computed for the
\* event: the playlist percent in collection mode, the file percent otherwise.
C19_HostPercentage ==
    Reported
       => /\ message.data.percentage = FNum(result.percentage)
          /\ message.data.percentage
                 = FNum(IF state.is_playlist_mode
                        THEN result.playlist_percent
                        ELSE result.file_percent)

\* the fields of the outward schema
OutwardFields ==
    {"status", "percentage", "file_percent", "playlist_percent",
     "downloaded_bytes", "total_bytes", "speed", "eta", "filename",
     "isPlaylist"}

\* C20: every progress message printed for the host, in collection mode and
\* outside it, has every field of the outward schema with a value of its
\* type: status, percentage, file_percent, playlist_percent, downloaded and
\* total bytes, speed, eta, filename and the is-collection flag.
C20_OutwardSchema ==
    last.op = "_on_progress"
       => /\ OutwardFields \subseteq DOMAIN message.data
          /\ message.data.status \in Statuses \cup {"error"}
          /\ message.data.percentage.k \in {"num", "inf", "nan"}
          /\ message.data.downloaded_bytes \in Int
          /\ message.data.total_bytes \in Int
          /\ message.data.eta \in Int
          /\ message.data.isPlaylist \in BOOLEAN

\* the latest operation was _on_progress called with some callback
HookCalled == last.op = "_on_progress" /\ "callback" \in DOMAIN last

\* building progress_data from the raw event raises
BuildFails(ev) == "exc" \in DOMAIN progress_data_of(ev)

\* C21: for every raw event (fields missing, None or of the wrong type) and
\* every callback (one that raises included), _on_progress returns without
\* an exception reaching the fetch engine; when building the event fails it
\* calls the callback with an event of status 'error' that carries a message;
\* and the events after a failed call are still processed.
C21_OnProgressNeverRaises ==
    /\ [](HookCalled
             => /\ last.outcome = "returned"
                /\ (BuildFails(raw) /\ Callable(last.callback))
                       => /\ Len(last.handed) = 1
                          /\ last.handed[1].status = "error"
                          /\ last.handed[1].message # ""
                /\ BuildFails(raw) => state = last.before)
    /\ [][(/\ HookCalled
           /\ BuildFails(raw) \/ last.callback = "raising"
           /\ last'.op = "_on_progress"
           /\ Callable(last'.callback)
           /\ ~BuildFails(raw'))
             => /\ last'.handed # <<>>
                /\ last'.handed[1]
                       = calculate_progress(state,
                                            progress_data_of(raw')).result
                /\ state'
                       = calculate_progress(state,
                                            progress_data_of(raw')).state]_vars

\* a byte count that is no numeral, given with a callback that raises: the
\* error event was handed over and the call returned
C21_Witness ==
    /\ HookCalled
    /\ last.callback = "raising"
    /\ "downloaded_bytes" \in DOMAIN raw
    /\ raw.downloaded_bytes = PyStr(<<"N", "/", "A">>)
    /\ BuildFails(raw)
    /\ last.handed = <<ErrorEvent("ValueError")>>
    /\ last.outcome = "returned"
    /\ last.before.is_playlist_mode
    /\ state = last.before

\* the value of the field of the event is a string that int() rejects
Unparsable(ev, key) ==
    /\ key \in DOMAIN ev
    /\ ev[key].t = "str"
    /\ ~IntOf(ev[key]).ok

\* C22: a raw event whose downloaded or total byte count is present but not
\* convertible to an integer is processed with that count replaced by 0 and
\* gives a normal progress event: the callback is handed no event of status
\* 'error', and none is printed for the host.
C22_UnparsableCountIsZero ==
    (/\ HookCalled
     /\ Callable(last.callback)
     /\ Unparsable(raw, "downloaded_bytes") \/ Unparsable(raw, "total_bytes"))
       => /\ last.handed # <<>>
          /\ last.handed[1].status # "error"
          /\ Unparsable(raw, "total_bytes")
                 => last.handed[1].total_bytes = 0
          /\ (Unparsable(raw, "downloaded_bytes") /\ ~IsFinished(raw))
                 => last.handed[1].downloaded_bytes = 0
          /\ last.callback = "reporter" => message.data.status # "error"

\* the step is a call of reset_progress_state by session s
Resets(s) == session'[s].resets # session[s].resets

\* the step is a call of set_playlist_info by session s
Declares(s) == session'[s].declared # session[s].declared

\* the step is a call of the progress hook by session s
Hooks(s) == session'[s].hooks # session[s].hooks

\* C23: every invocation of download_media resets the progress state exactly
\* once, before it calls set_playlist_info and before any of its progress
\* events is processed; right after the reset the state is the cleared
\* default (not in collection mode, total_songs 0, completed_songs 0,
\* current_index 1, empty name).
C23_ResetOnceFirst ==
    /\ [](\A s \in Sessions :
             session[s].pc # "idle" => session[s].resets = 1)
    /\ [][\A s \in Sessions :
             /\ Resets(s)
                    => /\ session[s].resets = 0
                       /\ session[s].declared = 0 /\ session[s].hooks = 0
                       /\ ~state'.is_playlist_mode
                       /\ state'.total_songs = 0
                       /\ state'.completed_songs = 0
                       /\ state'.current_index = 1
                       /\ state'.playlist_name = <<>>
             /\ (Declares(s) \/ Hooks(s))
                    => session[s].resets = 1 /\ ~Resets(s)]_vars

\* a session that was reset over the collection of the one before it, and
\* has processed a progress event since
C23_Witness ==
    \E s \in Sessions :
        /\ session[s].pc = "transfer"
        /\ session[s].resets = 1
        /\ session[s].hooks = 1
        /\ session[s].declared = 0
        /\ \E t \in Sessions \ {s} :
               /\ session[t].pc = "done"
               /\ session[t].declared = 1
               /\ session[t].hooks = 2
               /\ session[t].own.completed_songs = 1
        /\ ~state.is_playlist_mode
        /\ state = ProgressState

\* the invocation s of download_media is between its reset and its return
UnderWay(s) == session[s].pc \in {"checked", "extracted", "transfer"}

\* C25: when two invocations of download_media are under way in one process
\* and their steps interleave, each works on a collection state of its own:
\* the completed count, item index and collection mode that an invocation
\* finds, and the percentages reported for it, are what its own calls alone
\* produce, whatever reset, set_playlist_info or finished event the other
\* invocation brings.
C25_SessionsIsolated ==
    /\ [](\A s \in Sessions : UnderWay(s) => state = session[s].own)
    /\ [][\A s \in Sessions :
             Hooks(s)
                => /\ result' = _on_progress(session[s].own, raw').result
                   /\ state' = session'[s].own]_vars

\* C26: within one invocation of download_media set_playlist_info is called
\* at most once, only when the target was found to be a collection with
\* entries, and before the transfer that produces progress events begins
\* (so before any finished item).
C26_DeclareOnceBeforeTransfer ==
    /\ [](\A s \in Sessions : session[s].declared <= 1)
    /\ [][\A s \in Sessions :
             Declares(s)
                => /\ session[s].declared = 0
                   /\ session[s].pc = "extracted"
                   /\ session[s].hooks = 0
                   /\ session[s].own.completed_songs = 0
                   /\ session[s].process_playlist
                   /\ "entries" \in DOMAIN session[s].info
                   /\ session[s].info.entries # <<>>
                   /\ session'[s].pc = "transfer"]_vars
    /\ [](\A s \in Sessions :
             session[s].hooks > 0 => session[s].pc \in {"transfer", "done"})

\* a collection of two declared once, its first item finished
C26_Witness ==
    \E s \in Sessions :
        /\ session[s].pc = "transfer"
        /\ session[s].declared = 1
        /\ session[s].hooks = 1
        /\ session[s].own.is_playlist_mode
        /\ session[s].own.completed_songs = 1
        /\ IsFinished(raw)
        /\ state = session[s].own

\* what the entry point returns for the event ev on the state st
EntryOut(entry, st, ev) ==
    IF entry = "_on_progress" THEN _on_progress(st, ev)
    ELSE calculate_progress(st, ev)

\* the step leaves the result and the state of out
StepGives(out) == result' = out.result /\ state' = out.state

\* C24: after reset_state, whatever set_playlist_info and calculate_progress
\* calls came before it (a collection abandoned without a finished event
\* included), every later call returns what a freshly constructed
\* ProgressCalculator returns for the same calls: reset_state leaves the
\* state of a new calculator, and each call returns, and leaves, what it
\* does on the calculator constructed at the latest reset.
C24_ResetIsFresh ==
    /\ [](last.op = "reset_state" => state = ProgressState)
    /\ [](state = fresh)
    /\ [][last'.op \in {"calculate_progress", "_on_progress"}
             => StepGives(EntryOut(via', fresh, raw'))]_vars

\* reset_state on a collection of three with one item completed
C24_Witness ==
    /\ last.op = "reset_state"
    /\ last.before.is_playlist_mode
    /\ last.before.total_songs = 3
    /\ last.before.completed_songs = 1
    /\ last.before.playlist_name # <<>>
    /\ state = ProgressState
    /\ ~state.is_playlist_mode
    /\ state.playlist_name = <<>>

\* the latest operation was a call of an entry point with a finished event
\* that reached _handle_finished_status in collection mode
FinishedInCollection ==
    /\ Processed
    /\ IsFinished(raw)
    /\ result.status # "error"
    /\ last.before.is_playlist_mode

\* C27: in collection mode with completed_songs = total_songs - 1, a finished
\* event returns playlist_percent 100, percentage 100 and status 'finished'
\* and leaves completed_songs and current_index unchanged; every further
\* finished event after it returns the same and leaves the state unchanged.
C27_LastItemFinished ==
    /\ []((/\ FinishedInCollection
           /\ last.before.completed_songs = last.before.total_songs - 1)
             => /\ result.status = "finished"
                /\ result.playlist_percent = QInt(100)
                /\ result.percentage = QInt(100)
                /\ state.completed_songs = last.before.completed_songs
                /\ state.current_index = last.before.current_index
                /\ state = last.before)
    /\ [][(/\ FinishedInCollection
           /\ last.before.completed_songs = last.before.total_songs - 1
           /\ last'.op \in {"calculate_progress", "_on_progress"}
           /\ IsFinished(raw'))
             => /\ result'.status = result.status
                /\ result'.playlist_percent = result.playlist_percent
                /\ result'.percentage = result.percentage
                /\ state' = state]_vars

\* the finished event of the last of three items, delivered a second time
C27_Witness ==
    /\ FinishedInCollection
    /\ finrun = 2
    /\ last.before.total_songs = 3
    /\ last.before.completed_songs = 2
    /\ state.completed_songs = 2
    /\ state.current_index = 3
    /\ result.status = "finished"
    /\ result.percentage = QInt(100)

\* C28: for a finished event in collection mode that is not the last one
\* (completed_songs < total_songs - 1 before it), the playlist_percent
\* returned is the playlist formula on the incremented completed_songs with
\* the file percent taken as 100, that is
\* 100 * (completed_songs after + 1) / total_songs limited to [0,100], and
\* the percentage returned equals it.
C28_NonFinalFinished ==
    (/\ FinishedInCollection
     /\ last.before.completed_songs < last.before.total_songs - 1)
       => /\ state.completed_songs = last.before.completed_songs + 1
          /\ result.playlist_percent
                 = Limited(Q(100 * (state.completed_songs + 1),
                             state.total_songs))
          /\ result.playlist_percent
                 = _calculate_playlist_progress(state, QInt(100))
          /\ result.percentage = result.playlist_percent

\* the finished event of the first of three items: 100 * (1 + 1) / 3
C28_Witness ==
    /\ FinishedInCollection
    /\ last.before.total_songs = 3
    /\ last.before.completed_songs = 0
    /\ state.completed_songs = 1
    /\ result.playlist_percent = Q(200, 3)
    /\ result.percentage = Q(200, 3)

\* C29: calculate_progress changes the state only on events with status
\* 'finished' in collection mode: every event with another status, and every
\* event outside collection mode (a finished one included), leaves
\* is_playlist_mode, total_songs, completed_songs, current_index and
\* playlist_name as they were.
C29_StateFrame ==
    (Processed /\ (~IsFinished(raw) \/ ~last.before.is_playlist_mode))
       => /\ state.is_playlist_mode = last.before.is_playlist_mode
          /\ state.total_songs = last.before.total_songs
          /\ state.completed_songs = last.before.completed_songs
          /\ state.current_index = last.before.current_index
          /\ state.playlist_name = last.before.playlist_name

\* a converting event on the second of three items
C29_Witness ==
    /\ Processed
    /\ raw.status = "converting"
    /\ last.before.is_playlist_mode
    /\ last.before.total_songs = 3
    /\ last.before.completed_songs = 1
    /\ state = last.before

\* C30: in every reachable state in collection mode current_index is
\* completed_songs + 1, and when total_songs >= 1 the playlist_index of a
\* result, and of the message printed for the host, is at most its
\* playlist_count.
C30_IndexFollowsCompleted ==
    state.is_playlist_mode
       => /\ state.current_index = state.completed_songs + 1
          /\ (Processed /\ result.status # "error" /\ state.total_songs >= 1)
                 => /\ result.playlist_index <= result.playlist_count
                    /\ last.op = "_on_progress"
                           => message.data.playlist_index
                                  <= message.data.playlist_count

\* the finished event of the last of three items, reported as item 3 of 3
C30_Witness ==
    /\ FinishedInCollection
    /\ last.op = "_on_progress"
    /\ state.total_songs = 3
    /\ state.completed_songs = 2
    /\ state.current_index = 3
    /\ last.before = state
    /\ result.playlist_index = 3
    /\ message.data.playlist_index = 3
    /\ message.data.playlist_count = 3

\* C31: for every event that format_progress formats, whatever its
\* percentage string and status, the percentage of the message printed for
\* the host is a number in [0, 100].
C31_HostPercentageInRange ==
    last.op = "_on_progress"
       => /\ message.data.percentage.k = "num"
          /\ InRange(message.data.percentage.q)

\* C32: format_progress never promotes an event to the terminal status: the
\* message printed for the host has status 'finished' only when the event
\* that calculate_progress produced has status 'finished'; the 'downloading'
\* of an item of a collection that is not the last, and every other status,
\* stays as it is whatever the percentage.
C32_NoPromotionToFinished ==
    Reported
       => (message.data.status = "finished" => result.status = "finished")

\* C33: process_batch_file runs its downloads strictly one after another: at
\* most one invocation of download_media is under way at any time, every URL
\* of the file is attempted, in file order, also when an earlier one fails
\* or raises (once the calls before it have returned, whatever their
\* outcome, the attempt of the next URL is what the loop does), and each
\* attempt begins with a reset of the progress state.
C33_BatchSequential ==
    /\ [](\A s, t \in Sessions :
             (s < t /\ session[t].pc # "idle") => session[s].pc = "done")
    /\ [](Cardinality({s \in Sessions : session[s].pc \notin {"idle", "done"}})
             <= 1)
    /\ [][\A s \in Sessions :
             (session[s].pc = "idle" /\ session'[s].pc # "idle")
                => /\ Resets(s)
                   /\ session'[s].resets = 1
                   /\ state' = ProgressState]_vars
    /\ [](\A s \in Sessions :
             (/\ session[s].pc = "idle"
              /\ \A t \in Sessions : t < s => session[t].pc = "done")
                => ENABLED (\E process_playlist \in BOOLEAN :
                               Attempt(s, process_playlist, TRUE, FALSE)))

\* the second URL under way after the first one raised
C33_Witness ==
    /\ session[1].pc = "done"
    /\ session[1].outcome = "raised"
    /\ session[2].pc = "transfer"
    /\ session[2].resets = 1
    /\ session[2].hooks = 1

====
